---- MODULE Spec2Model ----
(***************************************************************************)
(* A model of pydle/async.py: the coroutine trampoline (coroutine), the    *)
(* future combinator (parallel) and the reactor wrapper (EventLoop).       *)
(*                                                                         *)
(* Futures are tornado 4 TracebackFutures: set_result/set_exception mark   *)
(* the future done and call the registered callbacks in order, logging     *)
(* (not propagating) what a callback raises; add_done_callback on a done   *)
(* future calls the callback at once, and what it raises propagates to the *)
(* caller of add_done_callback.                                            *)
(***************************************************************************)
EXTENDS Integers, Sequences, FiniteSets, TLC

\* ------------------------------------------------------------------ bounds
NumFutures == 2   \* leaf futures the environment settles
MaxArgs == 2      \* futures handed to one parallel() call or yielded in one tuple
NumCallbacks == 2 \* distinct callbacks handed to on_read, on_write, on_error
MaxCallbacks == 2 \* registrations (over the three lists) a descriptor holds at a time
NumThreads == 2   \* threads that call into the loop
MaxTasks == 1     \* calls of schedule_in and schedule_periodically
MaxFirings == 3   \* invocations of the callback of one periodic task

\* --------------------------------------------------------------- constants
NoneVal == 0      \* Python's None, as a list entry and as "no exception"
GenError == 99    \* the error a generator raises by itself

Leaves == 1..NumFutures
ResultOf(f) == 4 + f      \* the value leaf f resolves with (r_f)
ErrorOf(f) == 90 + f      \* the error leaf f fails with (E_f)

\* Python values that travel through the trampoline.
NoneValue == [tag |-> "none", data |-> <<>>]
Scalar(v) == [tag |-> "val", data |-> <<v>>]
List(s) == [tag |-> "list", data |-> s]

SeqsUpTo(S, n) == UNION {[1..k -> S] : k \in 0..n}

VARIABLES
    fut,        \* leaf future -> [state, value, error]
    cbs,        \* leaf future -> the callbacks registered on it, in order
    joins,      \* the join sets parallel() created, in creation order
    gen,        \* the generator's code: what it yields, catches and finally does
    pos,        \* the yield the generator is suspended at (0: not started)
    gdone,      \* the generator has terminated
    received,   \* what each resumption of the generator was given
    outer,      \* return_future of the coroutine wrapper
    logged,     \* errors raised by done-callbacks, logged by the future
    started,    \* the wrapper has been called
    called,     \* the join of the direct parallel() call (0: not called yet)
    raised,     \* the error the direct parallel() call raised (NoneVal: none)
    fresh       \* history: the inputs of the direct parallel() call were all pending

futVars == <<fut, cbs, joins, gen, pos, gdone, received, outer, logged, started, called, raised, fresh>>

VARIABLES
    handlers,    \* self.handlers: fd -> [read, write, error], each a list of callbacks
    io,          \* io_loop: fd -> the events last passed to add_handler for it
    inflight,    \* io_loop._events: fd -> the events polled for it and not yet delivered
    lastErr,     \* what the last operation raised ("none": it returned)
    invoked,     \* history: the callbacks the last dispatch invoked, in order
    dispatched,  \* history: the notification the last step delivered
    lastOn,      \* history: the last step was on_read(fd, cb): <<fd, cb, registrations before>>
    onOff        \* history: the last two steps were on_read(fd, cb), off_read(fd, cb)

loopVars == <<handlers, io, inflight, lastErr, invoked, dispatched, lastOn, onOff>>

VARIABLES
    running,     \* self.running
    run_thread,  \* self.run_thread (NoneVal: None)
    pc,          \* thread -> the statement of run or run_with it is at ("idle": in neither)
    func,        \* thread -> what the func of its run_with does
    io_stopped,  \* io_loop._stopped: stop() was called and no start() has taken it yet
    ret          \* history: thread -> how its last run, run_with or run_until ended

runVars == <<running, run_thread, pc, func, io_stopped, ret>>

VARIABLES
    timeouts,    \* io_loop: handle -> the pending timeout it stands for
    callbacks,   \* io_loop: the callbacks added with add_callback, not yet run
    tasks,       \* history: one record per schedule_in / schedule_periodically call
    executing    \* the periodic task whose callback is running, and its next handle

timerState == <<timeouts, callbacks, tasks, executing>>
timerVars == <<timerState>>

schedVars == <<runVars, timerVars>>

\* ------------------------------------------------------------------ Future
PendingFuture == [state |-> "PENDING", value |-> NoneValue, error |-> NoneVal, sets |-> 0]

LeafRef(f) == [kind |-> "leaf", id |-> f]
JoinRef(j) == [kind |-> "join", id |-> j]

DoneCb(j) == [fn |-> "done", join |-> j]
HandleCb == [fn |-> "handle_future", join |-> 0]

\* The state the handlers read and write, with the exception in flight (exc).
World ==
    [fut |-> fut, cbs |-> cbs, joins |-> joins, pos |-> pos, gdone |-> gdone,
     received |-> received, outer |-> outer, logged |-> logged, exc |-> NoneVal]

IsDone(w, ref) ==
    IF ref.kind = "leaf" THEN w.fut[ref.id].state # "PENDING"
    ELSE w.joins[ref.id].state # "PENDING"

\* future.exception()
ExceptionOf(w, ref) ==
    IF ref.kind = "leaf" THEN w.fut[ref.id].error ELSE NoneVal

\* future.result() of a future that holds no exception
ValueOfRef(w, ref) ==
    IF ref.kind = "leaf" THEN Scalar(w.fut[ref.id].value)
    ELSE List(w.joins[ref.id].result)

\* list.remove(x): drops the first occurrence
RECURSIVE RemoveFirst(_, _)
RemoveFirst(s, x) ==
    IF s = <<>> THEN <<>>
    ELSE IF Head(s) = x THEN Tail(s)
    ELSE <<Head(s)>> \o RemoveFirst(Tail(s), x)

\* the keys of OrderedDict(zip(futures, ...)): first occurrences, in order
RECURSIVE DictKeys(_)
DictKeys(s) ==
    IF s = <<>> THEN <<>>
    ELSE LET front == DictKeys(SubSeq(s, 1, Len(s) - 1))
             last == s[Len(s)]
         IN IF \E i \in 1..Len(front) : front[i] = last THEN front
            ELSE Append(front, last)

\* ------------------------------------------------------------- generator
\* The generator is the caller's code.  Its script: the futures it yields
\* (a single future, or a tuple of them), whether the yield is inside a
\* try/except that catches an injected error, and how it ends.  (A join
\* future never holds an exception, so nothing is ever thrown at a tuple yield.)
StepSet ==
    {[fs |-> <<f>>, tuple |-> FALSE, catch |-> c] : f \in Leaves, c \in BOOLEAN}
    \cup {[fs |-> s, tuple |-> TRUE, catch |-> FALSE] : s \in SeqsUpTo(Leaves, MaxArgs)}

\* The generators: none, one or two yields, then a return or a raise.  Two
\* yields pair every outcome of one yield with every continuation at the next.
GenSet == {[steps |-> s, final |-> e] : s \in SeqsUpTo(StepSet, 1 + 1), e \in {"return", "raise"}}

NoGen == [steps |-> <<>>, final |-> "return"]

\* "return x + 1" where x is what the last yield evaluated to (None when the
\* last yield gave no number)
GenReturnValue(rcv) ==
    IF rcv # <<>> /\ rcv[Len(rcv)].kind = "send" /\ rcv[Len(rcv)].val.tag = "val"
    THEN Scalar(rcv[Len(rcv)].val.data[1] + 1)
    ELSE NoneValue

Outcome(w, kind, step, value, error) ==
    [w |-> w, kind |-> kind, step |-> step, value |-> value, error |-> error]

NoStep == [fs |-> <<>>, tuple |-> TRUE, catch |-> FALSE]

\* run the generator from where it is to its next yield, return or raise
GenRun(w) ==
    IF w.pos < Len(gen.steps)
    THEN Outcome([w EXCEPT !.pos = @ + 1], "yield", gen.steps[w.pos + 1], NoneValue, NoneVal)
    ELSE IF gen.final = "return"
    THEN Outcome([w EXCEPT !.gdone = TRUE], "return", NoStep, GenReturnValue(w.received), NoneVal)
    ELSE Outcome([w EXCEPT !.gdone = TRUE], "raise", NoStep, NoneValue, GenError)

gen_send(w, v) ==
    GenRun([w EXCEPT !.received = Append(@, [kind |-> "send", val |-> v])])

gen_throw(w, e) ==
    LET w1 == [w EXCEPT !.received = Append(@, [kind |-> "throw", val |-> Scalar(e)])]
    IN IF gen.steps[w.pos].catch THEN GenRun(w1)
       ELSE Outcome([w1 EXCEPT !.gdone = TRUE], "raise", NoStep, NoneValue, e)

\* ------------------------------------------------- parallel and coroutine
RECURSIVE InvokeCallback(_, _, _), RunCallbacks(_, _, _, _)
RECURSIVE add_done_callback(_, _, _), done(_, _, _), ParallelLoop(_, _, _)
RECURSIVE Continue(_), handle_future(_, _)

NewJoin(args) ==
    [args |-> args, pending |-> args, keys |-> DictKeys(args),
     vals |-> [f \in Leaves |-> NoneVal],
     state |-> "PENDING", result |-> <<>>, cbs |-> <<>>, sets |-> 0]

\* history, not program state: every input was pending when parallel() was called
AllPending(w, args) == \A i \in 1..Len(args) : w.fut[args[i]].state = "PENDING"

\* list(results.values())
ResultsValues(jn) == [i \in 1..Len(jn.keys) |-> jn.vals[jn.keys[i]]]

\* result_future.set_result(v): mark done, then call the callbacks in order
JoinSetResult(w, j, v) ==
    LET w1 == [w EXCEPT !.joins[j].state = "RESOLVED", !.joins[j].result = v,
                        !.joins[j].sets = @ + 1, !.joins[j].cbs = <<>>]
    IN RunCallbacks(w1, JoinRef(j), w.joins[j].cbs, 1)

\* parallel.done
done(w, j, f) ==
    LET pend == RemoveFirst(w.joins[j].pending, f)
        w1 == [w EXCEPT !.joins[j].pending = pend]
    IN IF w.fut[f].state = "FAILED"
       THEN [w1 EXCEPT !.exc = w.fut[f].error]
       ELSE LET w2 == [w1 EXCEPT !.joins[j].vals[f] = w.fut[f].value]
            IN IF pend = <<>>
               THEN JoinSetResult(w2, j, ResultsValues(w2.joins[j]))
               ELSE w2

InvokeCallback(w, cb, ref) ==
    IF cb.fn = "done" THEN done(w, cb.join, ref.id) ELSE handle_future(w, ref)

\* Future._set_done: an error raised by a callback is logged and the next runs
RunCallbacks(w, ref, list, i) ==
    IF i > Len(list) THEN w
    ELSE LET w1 == InvokeCallback(w, list[i], ref)
             w2 == IF w1.exc # NoneVal
                   THEN [w1 EXCEPT !.logged = Append(@, w1.exc), !.exc = NoneVal]
                   ELSE w1
         IN RunCallbacks(w2, ref, list, i + 1)

\* Future.add_done_callback
add_done_callback(w, ref, cb) ==
    IF IsDone(w, ref) THEN InvokeCallback(w, cb, ref)
    ELSE IF ref.kind = "leaf" THEN [w EXCEPT !.cbs[ref.id] = Append(@, cb)]
    ELSE [w EXCEPT !.joins[ref.id].cbs = Append(@, cb)]

\* "for future in futures: future.add_done_callback(done)": the list iterator
\* reads index i of the list as it is now, and done() shrinks that list
ParallelLoop(w, j, i) ==
    IF i > Len(w.joins[j].pending) THEN w
    ELSE LET w1 == add_done_callback(w, LeafRef(w.joins[j].pending[i]), DoneCb(j))
         IN IF w1.exc # NoneVal THEN w1 ELSE ParallelLoop(w1, j, i + 1)

\* parallel(*args); the join it returns is the last of w.joins
parallel(w, args) ==
    ParallelLoop([w EXCEPT !.joins = Append(@, NewJoin(args))], Len(w.joins) + 1, 1)

\* except StopIteration as e: return_future.set_result(e.value)
SetOuterResult(w, v) ==
    [w EXCEPT !.outer = [state |-> "RESOLVED", value |-> v, error |-> NoneVal, sets |-> @.sets + 1]]

\* the except branch swallowing the error: the outer future resolves with None
SetOuterException_swallowed(w, e) ==
    [w EXCEPT !.outer = [state |-> "RESOLVED", value |-> NoneValue, error |-> NoneVal, sets |-> @.sets + 1],
              !.exc = NoneVal]

\* except Exception as e: return_future.set_exception(e)
SetOuterException(w, e) ==
    [w EXCEPT !.outer = [state |-> "FAILED", value |-> NoneValue, error |-> e, sets |-> @.sets + 1],
              !.exc = NoneVal]

\* what the wrapper and handle_future do with what the generator did
Continue(r) ==
    IF r.kind = "return" THEN SetOuterResult(r.w, r.value)
    ELSE IF r.kind = "raise" THEN SetOuterException(r.w, r.error)
    ELSE IF r.step.tuple
    THEN LET w1 == parallel(r.w, r.step.fs)
         IN IF w1.exc # NoneVal THEN SetOuterException(w1, w1.exc)
            ELSE add_done_callback(w1, JoinRef(Len(r.w.joins) + 1), HandleCb)
    ELSE add_done_callback(r.w, LeafRef(r.step.fs[1]), HandleCb)

\* handle_future resuming with next(gen): the generator is sent None
handle_future_next(w, ref) ==
    IF ExceptionOf(w, ref) # NoneVal
    THEN Continue(gen_throw(w, ExceptionOf(w, ref)))
    ELSE Continue(gen_send(w, NoneValue))

\* coroutine.wrapper.handle_future
handle_future(w, ref) ==
    IF ExceptionOf(w, ref) # NoneVal
    THEN Continue(gen_throw(w, ExceptionOf(w, ref)))
    ELSE Continue(gen_send(w, ValueOfRef(w, ref)))

\* coroutine.wrapper: next(gen) and the first yield
wrapper(w) == Continue(GenRun(w))

\* Future.set_result / Future.set_exception on a leaf
SettleLeaf(w, f, ok) ==
    LET w1 == [w EXCEPT !.fut[f] = IF ok
                   THEN [state |-> "RESOLVED", value |-> ResultOf(f), error |-> NoneVal]
                   ELSE [state |-> "FAILED", value |-> NoneVal, error |-> ErrorOf(f)],
                        !.cbs[f] = <<>>]
    IN RunCallbacks(w1, LeafRef(f), w.cbs[f], 1)

\* ----------------------------------------------------------------- actions
Commit(w) ==
    /\ fut' = w.fut
    /\ cbs' = w.cbs
    /\ joins' = w.joins
    /\ pos' = w.pos
    /\ gdone' = w.gdone
    /\ received' = w.received
    /\ outer' = w.outer
    /\ logged' = w.logged

Resolve(f) ==
    /\ fut[f].state = "PENDING"
    /\ Commit(SettleLeaf(World, f, TRUE))
    /\ UNCHANGED <<gen, started, called, raised, fresh, loopVars, schedVars>>

Fail(f) ==
    /\ fut[f].state = "PENDING"
    /\ Commit(SettleLeaf(World, f, FALSE))
    /\ UNCHANGED <<gen, started, called, raised, fresh, loopVars, schedVars>>

\* a direct call parallel(*args)
CallParallel(args) ==
    /\ called = 0
    /\ LET w == parallel(World, args)
       IN /\ Commit(w)
          /\ raised' = w.exc
    /\ called' = Len(joins) + 1
    /\ fresh' = AllPending(World, args)
    /\ UNCHANGED <<gen, started, loopVars, schedVars>>

\* a call of the decorated function
CallCoroutine ==
    /\ ~started
    /\ started' = TRUE
    /\ Commit(wrapper(World))
    /\ UNCHANGED <<gen, called, raised, fresh, loopVars, schedVars>>

InitFutures ==
    /\ fut = [f \in Leaves |-> [state |-> "PENDING", value |-> NoneVal, error |-> NoneVal]]
    /\ cbs = [f \in Leaves |-> <<>>]
    /\ joins = <<>>
    /\ pos = 0
    /\ gdone = FALSE
    /\ received = <<>>
    /\ outer = PendingFuture
    /\ logged = <<>>
    /\ started = FALSE
    /\ called = 0
    /\ raised = NoneVal
    /\ fresh = FALSE

\* =============================================================== EventLoop

\* One descriptor: every operation reads and writes handlers[fd] and io[fd] only.
Fds == {1}
Callbacks == 1..NumCallbacks
Kinds == {"read", "write", "error"}

\* tornado.ioloop.IOLoop.READ, WRITE, ERROR (0x001, 0x004, 0x008 | 0x010) as
\* sets of bits: | is \cup and & is \cap
READ == {1}
WRITE == {4}
ERROR == {8, 16}
EVENT_MAPPING == [read |-> READ, write |-> WRITE, error |-> ERROR]
Masks == SUBSET (READ \cup WRITE \cup ERROR)

\* the event kinds a notification is for
Notified(events) == {k \in Kinds : events \cap EVENT_MAPPING[k] # {}}

\* The orders in which the notified kinds can come up when EVENT_MAPPING, a
\* dict, is iterated (kinds that are not notified are skipped wherever they come).
KindOrders(events) ==
    {o \in [1..Cardinality(Notified(events)) -> Notified(events)] :
        \A k \in Notified(events) : \E i \in DOMAIN o : o[i] = k}

\* what a callback does when invoked: nothing to the loop, remove itself from
\* the list it was called from, or unregister the descriptor
Behaviours == {"nop", "off", "unregister"}

Put(f, k, v) == [x \in DOMAIN f \cup {k} |-> IF x = k THEN v ELSE f[x]]
Drop(f, k) == [x \in DOMAIN f \ {k} |-> f[x]]
Count(s, x) == Cardinality({i \in 1..Len(s) : s[i] = x})
Entries(h) == Len(h.read) + Len(h.write) + Len(h.error)

\* { key: [] for key in self.EVENT_MAPPING }
EmptyEntry == [read |-> <<>>, write |-> <<>>, error |-> <<>>]

\* the loop's objects, with the error being raised (err)
Loop == [handlers |-> handlers, io |-> io, err |-> "none", invoked |-> <<>>]

\* EventLoop.register
register(L, fd) == [L EXCEPT !.handlers = Put(@, fd, EmptyEntry)]

\* EventLoop.unregister
unregister(L, fd) ==
    IF fd \notin DOMAIN L.handlers THEN [L EXCEPT !.err = "KeyError"]
    ELSE [L EXCEPT !.handlers = Drop(@, fd)]

\* the events _update_events computes
EventsOf(h) == UNION {EVENT_MAPPING[k] : k \in {x \in Kinds : h[x] # <<>>}}

\* EventLoop._update_events
_update_events(L, fd) ==
    [L EXCEPT !.io = Put(Drop(@, fd), fd, EventsOf(L.handlers[fd]))]

\* on_* that registers a descriptor it does not know
on_registering(L, kind, fd, cb) ==
    LET L0 == IF fd \in DOMAIN L.handlers THEN L ELSE register(L, fd)
    IN _update_events([L0 EXCEPT !.handlers[fd][kind] = Append(@, cb)], fd)

\* EventLoop.on_read, on_write, on_error
on(L, kind, fd, cb) ==
    IF fd \notin DOMAIN L.handlers THEN [L EXCEPT !.err = "KeyError"]
    ELSE _update_events([L EXCEPT !.handlers[fd][kind] = Append(@, cb)], fd)

on_read(L, fd, cb) == on(L, "read", fd, cb)
on_write(L, fd, cb) == on(L, "write", fd, cb)
on_error(L, fd, cb) == on(L, "error", fd, cb)

\* off_* that forgets to call _update_events
off_stale(L, kind, fd, cb) ==
    IF fd \notin DOMAIN L.handlers THEN [L EXCEPT !.err = "KeyError"]
    ELSE IF Count(L.handlers[fd][kind], cb) = 0 THEN [L EXCEPT !.err = "ValueError"]
    ELSE [L EXCEPT !.handlers[fd][kind] = RemoveFirst(@, cb)]

\* EventLoop.off_read, off_write, off_error
off(L, kind, fd, cb) ==
    IF fd \notin DOMAIN L.handlers THEN [L EXCEPT !.err = "KeyError"]
    ELSE IF Count(L.handlers[fd][kind], cb) = 0 THEN [L EXCEPT !.err = "ValueError"]
    ELSE _update_events([L EXCEPT !.handlers[fd][kind] = RemoveFirst(@, cb)], fd)

off_read(L, fd, cb) == off(L, "read", fd, cb)
off_write(L, fd, cb) == off(L, "write", fd, cb)
off_error(L, fd, cb) == off(L, "error", fd, cb)

\* EventLoop.handles_read, handles_write, handles_error (of a registered fd)
handles(L, kind, fd, cb) == Count(L.handlers[fd][kind], cb) > 0
handles_read(L, fd, cb) == handles(L, "read", fd, cb)
handles_write(L, fd, cb) == handles(L, "write", fd, cb)
handles_error(L, fd, cb) == handles(L, "error", fd, cb)

\* a call of handles_read, handles_write or handles_error: self.handlers[fd]
\* raises for a descriptor that is not registered
handles_call(L, kind, fd, cb) ==
    IF fd \notin DOMAIN L.handlers THEN [L EXCEPT !.err = "KeyError"] ELSE L

\* handler(fd): the callback runs, and does what the plan says it does
CallHandler(L, fd, kind, cb, b) ==
    LET L1 == [L EXCEPT !.invoked = Append(@, [kind |-> kind, cb |-> cb, arg |-> fd])]
    IN IF b = "off" THEN off(L1, kind, fd, cb)
       ELSE IF b = "unregister" THEN unregister(L1, fd)
       ELSE L1

\* "for handler in self.handlers[fd][event]: handler(fd)": the iterator reads
\* index i of the list object lst as it is now; a callback's off_* shrinks
\* that object while it is still the table's list (attached)
RECURSIVE HandlersLoop(_, _, _, _, _, _, _)
HandlersLoop(L, fd, kind, i, lst, attached, plan) ==
    IF i > Len(lst) THEN L
    ELSE LET L1 == CallHandler(L, fd, kind, lst[i], plan[Len(L.invoked) + 1])
             still == attached /\ fd \in DOMAIN L1.handlers
         IN IF L1.err # "none" THEN L1
            ELSE HandlersLoop(L1, fd, kind, i + 1,
                              IF still THEN L1.handlers[fd][kind] ELSE lst, still, plan)

\* "for event, ident in self.EVENT_MAPPING.items(): if events & ident: ..."
RECURSIVE EventsLoop(_, _, _, _, _, _)
EventsLoop(L, fd, events, order, k, plan) ==
    IF k > Len(order) THEN L
    ELSE IF events \cap EVENT_MAPPING[order[k]] = {}
    THEN EventsLoop(L, fd, events, order, k + 1, plan)
    ELSE IF fd \notin DOMAIN L.handlers THEN [L EXCEPT !.err = "KeyError"]
    ELSE LET L1 == HandlersLoop(L, fd, order[k], 1, L.handlers[fd][order[k]], TRUE, plan)
         IN IF L1.err # "none" THEN L1
            ELSE EventsLoop(L1, fd, events, order, k + 1, plan)

\* _do_on_event without the "if fd not in self.handlers: return" guard
_do_on_event_unguarded(L, fd, events, order, plan) ==
    EventsLoop(L, fd, events, order, 1, plan)

\* EventLoop._do_on_event
_do_on_event(L, fd, events, order, plan) ==
    IF fd \notin DOMAIN L.handlers THEN L
    ELSE EventsLoop(L, fd, events, order, 1, plan)

\* ------------------------------------------------------------ loop actions
\* What the callbacks of one dispatch do, one choice per invocation: at most
\* the callbacks registered for the notified kinds are invoked.
Plans(fd, events) ==
    LET n == IF fd \in DOMAIN handlers
             THEN Cardinality({<<k, i>> \in Kinds \X (1..MaxCallbacks) :
                      k \in Notified(events) /\ i <= Len(handlers[fd][k])})
             ELSE 0
    IN [1..n -> Behaviours]

NoDispatch == [fd |-> 0, events |-> {}, known |-> FALSE, before |-> EmptyEntry]

CommitLoop(L) ==
    /\ handlers' = L.handlers
    /\ io' = L.io
    /\ lastErr' = L.err
    /\ invoked' = L.invoked

NoHistory ==
    /\ dispatched' = NoDispatch
    /\ lastOn' = <<>>
    /\ onOff' = <<>>

Register(fd) ==
    /\ CommitLoop(register(Loop, fd))
    /\ NoHistory
    /\ UNCHANGED <<inflight, futVars, schedVars>>

Unregister(fd) ==
    /\ CommitLoop(unregister(Loop, fd))
    /\ NoHistory
    /\ UNCHANGED <<inflight, futVars, schedVars>>

RegistrationsLeft(fd) ==
    IF fd \in DOMAIN handlers THEN Entries(handlers[fd]) < MaxCallbacks ELSE TRUE

OnRead(fd, cb) ==
    /\ RegistrationsLeft(fd)
    /\ LET L == on_read(Loop, fd, cb)
       IN /\ CommitLoop(L)
          /\ lastOn' = IF L.err = "none" THEN <<fd, cb, Count(handlers[fd].read, cb)>> ELSE <<>>
    /\ dispatched' = NoDispatch
    /\ onOff' = <<>>
    /\ UNCHANGED <<inflight, futVars, schedVars>>

OnWrite(fd, cb) ==
    /\ RegistrationsLeft(fd)
    /\ CommitLoop(on_write(Loop, fd, cb))
    /\ NoHistory
    /\ UNCHANGED <<inflight, futVars, schedVars>>

OnError(fd, cb) ==
    /\ RegistrationsLeft(fd)
    /\ CommitLoop(on_error(Loop, fd, cb))
    /\ NoHistory
    /\ UNCHANGED <<inflight, futVars, schedVars>>

OffRead(fd, cb) ==
    /\ LET L == off_read(Loop, fd, cb)
       IN /\ CommitLoop(L)
          /\ onOff' = IF L.err = "none" /\ lastOn # <<>> /\ lastOn[1] = fd /\ lastOn[2] = cb
                      THEN lastOn ELSE <<>>
    /\ dispatched' = NoDispatch
    /\ lastOn' = <<>>
    /\ UNCHANGED <<inflight, futVars, schedVars>>

OffWrite(fd, cb) ==
    /\ CommitLoop(off_write(Loop, fd, cb))
    /\ NoHistory
    /\ UNCHANGED <<inflight, futVars, schedVars>>

OffError(fd, cb) ==
    /\ CommitLoop(off_error(Loop, fd, cb))
    /\ NoHistory
    /\ UNCHANGED <<inflight, futVars, schedVars>>

Handles(kind, fd, cb) ==
    /\ CommitLoop(handles_call(Loop, kind, fd, cb))
    /\ NoHistory
    /\ UNCHANGED <<inflight, futVars, schedVars>>

\* the io_loop polls: fd is ready for some of the events it is registered for
\* (the multiplexer reports errors and hang-ups whether asked for or not)
Poll(fd, events) ==
    /\ fd \notin DOMAIN inflight
    /\ fd \in DOMAIN io
    /\ events # {}
    /\ events \subseteq io[fd] \cup ERROR
    /\ inflight' = Put(inflight, fd, events)
    /\ lastErr' = "none"
    /\ invoked' = <<>>
    /\ NoHistory
    /\ UNCHANGED <<handlers, io, futVars, schedVars>>

\* the io_loop delivers a polled notification: _do_on_event(fd, events)
Deliver(fd, order, plan) ==
    /\ inflight' = Drop(inflight, fd)
    /\ CommitLoop(_do_on_event(Loop, fd, inflight[fd], order, plan))
    /\ dispatched' = [fd |-> fd, events |-> inflight[fd],
                      known |-> fd \in DOMAIN handlers,
                      before |-> IF fd \in DOMAIN handlers THEN handlers[fd] ELSE EmptyEntry]
    /\ lastOn' = <<>>
    /\ onOff' = <<>>
    /\ UNCHANGED <<futVars, schedVars>>

InitLoop ==
    /\ handlers = << >>
    /\ io = << >>
    /\ inflight = << >>
    /\ lastErr = "none"
    /\ invoked = <<>>
    /\ dispatched = NoDispatch
    /\ lastOn = <<>>
    /\ onOff = <<>>

NextLoop ==
    \/ \E fd \in Fds : Register(fd)
    \/ \E fd \in Fds : Unregister(fd)
    \/ \E fd \in Fds, cb \in Callbacks : OnRead(fd, cb)
    \/ \E fd \in Fds, cb \in Callbacks : OnWrite(fd, cb)
    \/ \E fd \in Fds, cb \in Callbacks : OnError(fd, cb)
    \/ \E fd \in Fds, cb \in Callbacks : OffRead(fd, cb)
    \/ \E fd \in Fds, cb \in Callbacks : OffWrite(fd, cb)
    \/ \E fd \in Fds, cb \in Callbacks : OffError(fd, cb)
    \/ \E kind \in Kinds, fd \in Fds, cb \in Callbacks : Handles(kind, fd, cb)
    \/ \E fd \in Fds, events \in Masks : Poll(fd, events)
    \/ \E fd \in DOMAIN inflight :
          \E order \in KindOrders(inflight[fd]), plan \in Plans(fd, inflight[fd]) :
              Deliver(fd, order, plan)


\* ================================================== EventLoop: run and stop
Threads == 1..NumThreads
FuncValue == 7    \* what func returns, or the future it returns resolves with

\* what the func handed to run_with does: return a value, raise, or return a
\* future that resolves or fails (run_until hands in "lambda: future")
Funcs == {"value", "raise", "future_resolves", "future_fails"}

\* the threads inside io_loop.start()
Driving == {t \in Threads : pc[t] \in {"in_start", "in_sync"}}

NoCall == [op |-> "none", ended |-> "none", produced |-> NoneVal, returned |-> NoneVal]
Ended(op, how, produced, returned) ==
    [op |-> op, ended |-> how, produced |-> produced, returned |-> returned]

\* what run_with returns when run_sync returned r: it has no return statement
run_with_returns(r) == NoneVal

\* "return self.run_with(lambda: future)"
run_until_returns(r) == run_with_returns(r)

\* run, "if not self.running:"
RunCheck(t) ==
    /\ pc[t] = "idle"
    /\ IF running
       THEN /\ ret' = [ret EXCEPT ![t] = Ended("run", "returned", NoneVal, NoneVal)]
            /\ pc' = pc
       ELSE /\ pc' = [pc EXCEPT ![t] = "run_set_running"]
            /\ ret' = [ret EXCEPT ![t] = NoCall]
    /\ UNCHANGED <<running, run_thread, func, io_stopped>>

\* run, "self.running = True"
RunSetRunning(t) ==
    /\ pc[t] = "run_set_running"
    /\ running' = TRUE
    /\ pc' = [pc EXCEPT ![t] = "run_set_thread"]
    /\ UNCHANGED <<run_thread, func, io_stopped, ret>>

\* run, "self.run_thread = threading.current_thread().ident"
RunSetThread(t) ==
    /\ pc[t] = "run_set_thread"
    /\ run_thread' = t
    /\ pc' = [pc EXCEPT ![t] = "run_start"]
    /\ UNCHANGED <<running, func, io_stopped, ret>>

\* run, "self.io_loop.start()" is entered: it raises when the io_loop is
\* running already, returns at once when stop() was called before, and
\* otherwise runs the loop
RunStart(t) ==
    /\ pc[t] = "run_start"
    /\ IF Driving # {}
       THEN /\ pc' = [pc EXCEPT ![t] = "idle"]
            /\ ret' = [ret EXCEPT ![t] = Ended("run", "raised", NoneVal, NoneVal)]
            /\ UNCHANGED io_stopped
       ELSE IF io_stopped
       THEN /\ pc' = [pc EXCEPT ![t] = "run_clear_thread"]
            /\ io_stopped' = FALSE
            /\ UNCHANGED ret
       ELSE /\ pc' = [pc EXCEPT ![t] = "in_start"]
            /\ UNCHANGED <<io_stopped, ret>>
    /\ UNCHANGED <<running, run_thread, func>>

\* run, "self.io_loop.start()" returns: stop() was called
RunReturn(t) ==
    /\ pc[t] = "in_start"
    /\ io_stopped
    /\ executing.task = 0
    /\ io_stopped' = FALSE
    /\ pc' = [pc EXCEPT ![t] = "run_clear_thread"]
    /\ UNCHANGED <<running, run_thread, func, ret>>

\* run, "self.run_thread = None"
RunClearThread(t) ==
    /\ pc[t] = "run_clear_thread"
    /\ run_thread' = NoneVal
    /\ pc' = [pc EXCEPT ![t] = "run_clear_running"]
    /\ UNCHANGED <<running, func, io_stopped, ret>>

\* run, "self.running = False", and the return
RunClearRunning(t) ==
    /\ pc[t] = "run_clear_running"
    /\ running' = FALSE
    /\ pc' = [pc EXCEPT ![t] = "idle"]
    /\ ret' = [ret EXCEPT ![t] = Ended("run", "returned", NoneVal, NoneVal)]
    /\ UNCHANGED <<run_thread, func, io_stopped>>

\* run_with(func) or run_until(future), "self.running = True"
WithSetRunning(t, op, f) ==
    /\ pc[t] = "idle"
    /\ op = "run_until" => f \in {"future_resolves", "future_fails"}
    /\ running' = TRUE
    /\ func' = [func EXCEPT ![t] = [op |-> op, does |-> f]]
    /\ pc' = [pc EXCEPT ![t] = "with_set_thread"]
    /\ ret' = [ret EXCEPT ![t] = NoCall]
    /\ UNCHANGED <<run_thread, io_stopped>>

\* run_with, "self.run_thread = threading.current_thread().ident"
WithSetThread(t) ==
    /\ pc[t] = "with_set_thread"
    /\ run_thread' = t
    /\ pc' = [pc EXCEPT ![t] = "with_sync"]
    /\ UNCHANGED <<running, func, io_stopped, ret>>

\* run_with, "self.io_loop.run_sync(func)" is entered: its start() raises
\* when the io_loop is running already; after an earlier stop() it returns at
\* once and run_sync raises TimeoutError, func never called
WithSync(t) ==
    /\ pc[t] = "with_sync"
    /\ IF Driving # {} \/ io_stopped
       THEN /\ pc' = [pc EXCEPT ![t] = "idle"]
            /\ ret' = [ret EXCEPT ![t] = Ended(func[t].op, "raised", NoneVal, NoneVal)]
            /\ io_stopped' = IF Driving # {} THEN io_stopped ELSE FALSE
       ELSE /\ pc' = [pc EXCEPT ![t] = "in_sync"]
            /\ UNCHANGED <<io_stopped, ret>>
    /\ UNCHANGED <<running, run_thread, func>>

\* run_with, "self.io_loop.run_sync(func)" ends: it returns what func
\* returned or its future resolved with, or raises what func raised or its
\* future failed with; after a stop() from elsewhere it raises TimeoutError
\* for a future that is still pending
SyncEnd(t) ==
    /\ pc[t] = "in_sync"
    /\ executing.task = 0
    /\ IF func[t].does \in {"value", "future_resolves"} /\ ~io_stopped
       THEN /\ pc' = [pc EXCEPT ![t] = "with_clear_thread"]
            /\ ret' = [ret EXCEPT ![t] = Ended(func[t].op, "none", FuncValue, NoneVal)]
       ELSE /\ pc' = [pc EXCEPT ![t] = "idle"]
            /\ ret' = [ret EXCEPT ![t] = Ended(func[t].op, "raised", NoneVal, NoneVal)]
    /\ io_stopped' = FALSE
    /\ UNCHANGED <<running, run_thread, func>>

\* run_with, "self.run_thread = None"
WithClearThread(t) ==
    /\ pc[t] = "with_clear_thread"
    /\ run_thread' = NoneVal
    /\ pc' = [pc EXCEPT ![t] = "with_clear_running"]
    /\ UNCHANGED <<running, func, io_stopped, ret>>

\* run_with, "self.running = False", and the return of run_with or run_until
WithClearRunning(t) ==
    /\ pc[t] = "with_clear_running"
    /\ running' = FALSE
    /\ pc' = [pc EXCEPT ![t] = "idle"]
    /\ ret' = [ret EXCEPT ![t] =
                  Ended(func[t].op, "returned", ret[t].produced,
                        IF func[t].op = "run_until" THEN run_until_returns(ret[t].produced)
                        ELSE run_with_returns(ret[t].produced))]
    /\ UNCHANGED <<run_thread, func, io_stopped>>

\* stop(), called by a thread that is in no call, or from a callback of the
\* loop it drives
Stop(t) ==
    /\ pc[t] \in {"idle", "in_start", "in_sync"}
    /\ io_stopped' = IF running THEN TRUE ELSE io_stopped
    /\ UNCHANGED <<running, run_thread, pc, func, ret>>

NoFunc == [op |-> "none", does |-> "value"]

InitRun ==
    /\ running = FALSE
    /\ run_thread = NoneVal
    /\ pc = [t \in Threads |-> "idle"]
    /\ func = [t \in Threads |-> NoFunc]
    /\ io_stopped = FALSE
    /\ ret = [t \in Threads |-> NoCall]

NextRun ==
    \/ \E t \in Threads : RunCheck(t) /\ UNCHANGED <<futVars, loopVars, timerVars>>
    \/ \E t \in Threads : RunSetRunning(t) /\ UNCHANGED <<futVars, loopVars, timerVars>>
    \/ \E t \in Threads : RunSetThread(t) /\ UNCHANGED <<futVars, loopVars, timerVars>>
    \/ \E t \in Threads : RunStart(t) /\ UNCHANGED <<futVars, loopVars, timerVars>>
    \/ \E t \in Threads : RunReturn(t) /\ UNCHANGED <<futVars, loopVars, timerVars>>
    \/ \E t \in Threads : RunClearThread(t) /\ UNCHANGED <<futVars, loopVars, timerVars>>
    \/ \E t \in Threads : RunClearRunning(t) /\ UNCHANGED <<futVars, loopVars, timerVars>>
    \/ \E t \in Threads, op \in {"run_with", "run_until"}, f \in Funcs :
          WithSetRunning(t, op, f) /\ UNCHANGED <<futVars, loopVars, timerVars>>
    \/ \E t \in Threads : WithSetThread(t) /\ UNCHANGED <<futVars, loopVars, timerVars>>
    \/ \E t \in Threads : WithSync(t) /\ UNCHANGED <<futVars, loopVars, timerVars>>
    \/ \E t \in Threads : SyncEnd(t) /\ UNCHANGED <<futVars, loopVars, timerVars>>
    \/ \E t \in Threads : WithClearThread(t) /\ UNCHANGED <<futVars, loopVars, timerVars>>
    \/ \E t \in Threads : WithClearRunning(t) /\ UNCHANGED <<futVars, loopVars, timerVars>>
    \/ \E t \in Threads : Stop(t) /\ UNCHANGED <<futVars, loopVars, timerVars>>

\* ====================================================== EventLoop: timers
Returns == {"True", "None", "False", "Zero", "raise"}

\* "result == False" in _periodic_handler: result is False, or 0 (0 == False),
\* or still the initial False because the callback raised
EqualsFalse(r) == r \in {"False", "Zero", "raise"}

\* the io_loop's timer structure and callback queue, with how often each
\* task's callback has been invoked (fired) and what the call in progress
\* returns (out)
Timers ==
    [timeouts |-> timeouts, callbacks |-> callbacks,
     fired |-> [k \in 1..MaxTasks |-> IF k <= Len(tasks) THEN tasks[k].count ELSE 0],
     out |-> NoneVal]

\* The Timeout object add_timeout creates for a task that has fired n times:
\* a handle no other timeout has.
HandleOf(task, n) == task * (MaxFirings + 1) + n

\* io_loop.add_timeout(when, callback): the new Timeout object is the handle
add_timeout(T, entry) ==
    LET h == HandleOf(entry.task, T.fired[entry.task])
    IN [T EXCEPT !.timeouts = Put(@, h, entry), !.out = h]

\* io_loop.remove_timeout(handle): nothing happens for a timeout that has fired
remove_timeout(T, h) ==
    [T EXCEPT !.timeouts = IF h \in DOMAIN @ THEN Drop(@, h) ELSE @, !.out = NoneVal]

\* EventLoop.schedule: io_loop.add_callback
schedule(T, cbk) == [T EXCEPT !.callbacks = Append(@, cbk), !.out = NoneVal]

\* EventLoop._do_schedule_in
_do_schedule_in(T, task) == add_timeout(T, [task |-> task, runs |-> "callback"])

\* EventLoop._do_schedule_periodically
_do_schedule_periodically(T, task) == add_timeout(T, [task |-> task, runs |-> "_periodic_handler"])

\* schedule_in that adds the timeout whatever thread calls it
schedule_in_unguarded(T, t, task) == _do_schedule_in(T, task)

\* EventLoop.schedule_in, called by thread t
schedule_in(T, t, task) ==
    IF run_thread # t
    THEN schedule(T, [fn |-> "_do_schedule_in", task |-> task])
    ELSE _do_schedule_in(T, task)

\* EventLoop.schedule_periodically, called by thread t
schedule_periodically(T, t, task) ==
    IF run_thread # t
    THEN schedule(T, [fn |-> "_do_schedule_periodically", task |-> task])
    ELSE _do_schedule_periodically(T, task)

\* unschedule that leaves the timeout in place
unschedule_nothing(T, h) == [T EXCEPT !.out = NoneVal]

\* EventLoop.unschedule
unschedule(T, h) == remove_timeout(T, h)

\* _periodic_handler adding no timeout before it calls the callback
periodic_first_nothing(T, task) == [T EXCEPT !.out = HandleOf(task, T.fired[task])]

\* _periodic_handler, "handle = self._do_schedule_periodically(...)", before
\* the callback is called
periodic_first(T, task) == _do_schedule_periodically(T, task)

\* _periodic_handler keeping the next timeout whatever the callback returned
periodic_finally_kept(T, handle, result) == [T EXCEPT !.out = NoneVal]

\* _periodic_handler, "finally: if result == False: remove_timeout(handle)"
periodic_finally(T, handle, result) ==
    IF EqualsFalse(result) THEN remove_timeout(T, handle) ELSE [T EXCEPT !.out = NoneVal]

\* a thread can call into the loop when it is in neither run nor run_with, or
\* from a callback of the loop it drives
CanCall(t) == pc[t] = "idle" \/ t \in Driving

NoExecuting == [task |-> 0, handle |-> 0]

\* the thread that runs the loop's callbacks now
IsLooping(t) == t \in Driving /\ executing = NoExecuting

NewTask(kind, handle) ==
    [kind |-> kind, handle |-> handle, count |-> 0, last |-> "none", unscheduled |-> "no"]

CommitTimers(T) ==
    /\ timeouts' = T.timeouts
    /\ callbacks' = T.callbacks

\* thread t calls schedule_in(when, callback)
ScheduleIn(t) ==
    /\ CanCall(t)
    /\ Len(tasks) < MaxTasks
    /\ LET T == schedule_in(Timers, t, Len(tasks) + 1)
       IN /\ CommitTimers(T)
          /\ tasks' = Append(tasks, NewTask("in", T.out))
    /\ UNCHANGED <<executing, runVars, futVars, loopVars>>

\* thread t calls schedule_periodically(interval, callback)
SchedulePeriodically(t) ==
    /\ CanCall(t)
    /\ Len(tasks) < MaxTasks
    /\ LET T == schedule_periodically(Timers, t, Len(tasks) + 1)
       IN /\ CommitTimers(T)
          /\ tasks' = Append(tasks, NewTask("periodically", T.out))
    /\ UNCHANGED <<executing, runVars, futVars, loopVars>>

\* thread t calls unschedule(handle) with the handle it got for a task
Unschedule(t, task) ==
    /\ CanCall(t)
    /\ task \in 1..Len(tasks)
    /\ tasks[task].handle # NoneVal
    /\ CommitTimers(unschedule(Timers, tasks[task].handle))
    /\ tasks' = [tasks EXCEPT ![task].unscheduled =
                    IF @ # "no" THEN @
                    ELSE IF tasks[task].count = 0 THEN "before"
                    ELSE IF executing.task = task THEN "during" ELSE "after"]
    /\ UNCHANGED <<executing, runVars, futVars, loopVars>>

\* the loop runs the first callback of its queue: a deferred
\* _do_schedule_in or _do_schedule_periodically
RunCallback(t) ==
    /\ IsLooping(t)
    /\ callbacks # <<>>
    /\ LET c == Head(callbacks)
           T == [Timers EXCEPT !.callbacks = Tail(@)]
       IN CommitTimers(IF c.fn = "_do_schedule_in" THEN _do_schedule_in(T, c.task)
                       ELSE _do_schedule_periodically(T, c.task))
    /\ UNCHANGED <<tasks, executing, runVars, futVars, loopVars>>

\* the loop runs the timeout of a schedule_in: the callback is invoked
FireOnce(t, h) ==
    /\ IsLooping(t)
    /\ h \in DOMAIN timeouts
    /\ timeouts[h].runs = "callback"
    /\ CommitTimers([Timers EXCEPT !.timeouts = Drop(@, h)])
    /\ tasks' = [tasks EXCEPT ![timeouts[h].task].count = @ + 1]
    /\ UNCHANGED <<executing, runVars, futVars, loopVars>>

\* the loop runs the timeout of a periodic task: _periodic_handler up to
\* the call of the callback
PeriodicBegin(t, h) ==
    /\ IsLooping(t)
    /\ h \in DOMAIN timeouts
    /\ timeouts[h].runs = "_periodic_handler"
    /\ tasks[timeouts[h].task].count < MaxFirings
    /\ LET task == timeouts[h].task
           T == periodic_first([Timers EXCEPT !.timeouts = Drop(@, h), !.fired[task] = @ + 1], task)
       IN /\ CommitTimers(T)
          /\ executing' = [task |-> task, handle |-> T.out]
          /\ tasks' = [tasks EXCEPT ![task].count = @ + 1]
    /\ UNCHANGED <<runVars, futVars, loopVars>>

\* the callback of the periodic task returns r or raises: the rest of
\* _periodic_handler
PeriodicEnd(t, r) ==
    /\ t \in Driving
    /\ executing # NoExecuting
    /\ CommitTimers(periodic_finally(Timers, executing.handle, r))
    /\ tasks' = [tasks EXCEPT ![executing.task].last = r]
    /\ executing' = NoExecuting
    /\ UNCHANGED <<runVars, futVars, loopVars>>

InitTimers ==
    /\ timeouts = << >>
    /\ callbacks = <<>>
    /\ tasks = <<>>
    /\ executing = NoExecuting

\* the thread that runs the loop; the others call into it
Runners == {1}

RunSteps(t) ==
    \/ RunCheck(t)
    \/ RunSetRunning(t)
    \/ RunSetThread(t)
    \/ RunStart(t)
    \/ RunReturn(t)
    \/ RunClearThread(t)
    \/ RunClearRunning(t)
    \/ \E f \in {"value", "raise"} : WithSetRunning(t, "run_with", f)
    \/ WithSetThread(t)
    \/ WithSync(t)
    \/ SyncEnd(t)
    \/ WithClearThread(t)
    \/ WithClearRunning(t)
    \/ Stop(t)

NextTimers ==
    \/ \E t \in Runners : RunSteps(t) /\ UNCHANGED <<futVars, loopVars, timerState>>
    \/ \E t \in Threads : ScheduleIn(t)
    \/ \E t \in Threads : SchedulePeriodically(t)
    \/ \E t \in Threads, task \in 1..MaxTasks : Unschedule(t, task)
    \/ \E t \in Threads : RunCallback(t)
    \/ \E t \in Threads, h \in DOMAIN timeouts : FireOnce(t, h)
    \/ \E t \in Threads, h \in DOMAIN timeouts : PeriodicBegin(t, h)
    \/ \E t \in Threads, r \in Returns : PeriodicEnd(t, r)


vars == <<futVars, loopVars, schedVars>>

InitParallel == InitFutures /\ gen = NoGen /\ InitLoop /\ InitRun /\ InitTimers

NextParallel ==
    \/ \E args \in SeqsUpTo(Leaves, MaxArgs) : CallParallel(args)
    \/ \E f \in Leaves : Resolve(f)
    \/ \E f \in Leaves : Fail(f)

SpecParallel == InitParallel /\ [][NextParallel]_vars

InitCoroutine == InitFutures /\ gen \in GenSet /\ InitLoop /\ InitRun /\ InitTimers

NextCoroutine ==
    \/ CallCoroutine
    \/ \E f \in Leaves : Resolve(f)
    \/ \E f \in Leaves : Fail(f)

SpecCoroutine == InitCoroutine /\ [][NextCoroutine]_vars

\* the registration table, the multiplexer and the dispatch of notifications
InitEventLoop == InitLoop /\ InitFutures /\ gen = NoGen /\ InitRun /\ InitTimers

SpecLoop == InitEventLoop /\ [][NextLoop]_vars

\* run, run_with, run_until and stop, called from any thread
SpecRun == InitEventLoop /\ [][NextRun]_vars

\* timers and deferred scheduling, with one thread running the loop
SpecTimers == InitEventLoop /\ [][NextTimers]_vars

\* ------------------------------------------------------- claims: parallel
TheJoin == joins[called]
Returned == called # 0 /\ raised = NoneVal
Distinct(s) == \A i, k \in 1..Len(s) : s[i] = s[k] => i = k
AllIn(s, st) == \A i \in 1..Len(s) : fut[s[i]].state = st
ResultsInOrder(s) == [i \in 1..Len(s) |-> ResultOf(s[i])]

\* C1: for parallel(f1..fN), N >= 1, the join future is never resolved while
\* an input future is still pending or has failed.
C1_JoinOnlyAfterAllSucceeded ==
    (Returned /\ Len(TheJoin.args) >= 1 /\ TheJoin.state = "RESOLVED")
        => AllIn(TheJoin.args, "RESOLVED")

\* C2: when every input of parallel(f1..fN), N >= 1 and the fi pairwise
\* distinct, has resolved, whatever the order, the join future is resolved
\* with one entry per input, [r1..rN], in input order.
C2_ResolvesWithResultsInInputOrder ==
    (Returned /\ Len(TheJoin.args) >= 1 /\ Distinct(TheJoin.args)
              /\ AllIn(TheJoin.args, "RESOLVED"))
        => /\ TheJoin.state = "RESOLVED"
           /\ TheJoin.result = ResultsInOrder(TheJoin.args)

\* What does hold of C2 (a lemma, no claim's formula): inputs that were all
\* pending at the call and have all resolved leave the join resolved, once,
\* with one entry per distinct input in input order.
ResultsInInputOrderIfPendingAtCall ==
    (Returned /\ fresh /\ Len(TheJoin.args) >= 1 /\ AllIn(TheJoin.args, "RESOLVED"))
        => /\ TheJoin.state = "RESOLVED"
           /\ TheJoin.sets = 1
           /\ TheJoin.result = ResultsInOrder(DictKeys(TheJoin.args))

\* C3: parallel() of no futures returns a future that is already resolved with
\* the empty list.
C3_EmptyParallelResolved ==
    (called # 0 /\ TheJoin.args = <<>>)
        => (TheJoin.state = "RESOLVED" /\ TheJoin.result = <<>>)

\* ------------------------------------------------------ claims: coroutine
Steps == gen.steps
Cur == Steps[pos]
Single(i) == ~Steps[i].tuple
Awaited(i) == Steps[i].fs[1]
Settled(f) == fut[f].state # "PENDING"
Sent(v) == [kind |-> "send", val |-> v]
Thrown(e) == [kind |-> "throw", val |-> Scalar(e)]
Resolved(v) == [state |-> "RESOLVED", value |-> v, error |-> NoneVal, sets |-> 1]
Failed(e) == [state |-> "FAILED", value |-> NoneValue, error |-> e, sets |-> 1]

\* C4: a coroutine that yields a future which fails with E, the generator not
\* handling E, has its outer future FAILED with E.
C4_UnhandledErrorFailsOuter ==
    (started /\ pos >= 1 /\ Single(pos) /\ ~Cur.catch /\ fut[Awaited(pos)].state = "FAILED")
        => (gdone /\ outer = Failed(ErrorOf(Awaited(pos))))

\* C4's case: the awaited future was pending when yielded, failed later, and
\* the error went through the generator into the outer future.
C4_Witness ==
    /\ started /\ pos = 2 /\ Single(1) /\ Single(2) /\ Awaited(1) # Awaited(2)
    /\ ~Cur.catch
    /\ received = <<Sent(Scalar(ResultOf(Awaited(1)))), Thrown(ErrorOf(Awaited(2)))>>
    /\ outer = Failed(ErrorOf(Awaited(2)))

\* C5: a generator that yields single futures which all resolve is resumed
\* each time with the value of the future it last yielded; the outer future is
\* PENDING while a yielded future is pending, and resolves with the
\* generator's return value (yield a future resolving to 5, return 5 + 1: 6).
AllSingle == \A i \in 1..Len(Steps) : Single(i)
NoneFailed == \A i \in 1..pos : fut[Awaited(i)].state # "FAILED"
C5_ResumedWithValuesThenReturn ==
    (started /\ AllSingle /\ NoneFailed) =>
        /\ \A i \in 1..Len(received) : received[i] = Sent(Scalar(ResultOf(Awaited(i))))
        /\ (pos >= 1 /\ ~Settled(Awaited(pos)))
              => (outer = PendingFuture /\ ~gdone /\ Len(received) = pos - 1)
        /\ (pos = 0 \/ Settled(Awaited(pos)))
              => /\ gdone /\ pos = Len(Steps) /\ Len(received) = pos
                 /\ gen.final = "return" => outer = Resolved(GenReturnValue(received))
                 /\ (gen.final = "return" /\ pos >= 1)
                       => outer.value = Scalar(ResultOf(Awaited(pos)) + 1)

\* C5's case: two futures yielded in turn, then "return x + 1".
C5_Witness ==
    /\ started /\ AllSingle /\ Len(Steps) = 2 /\ Awaited(1) = 2 /\ Awaited(2) = 1
    /\ received = <<Sent(Scalar(ResultOf(2))), Sent(Scalar(5))>>
    /\ outer = Resolved(Scalar(6))

\* C6: a generator that yielded a tuple of (pairwise distinct) futures is
\* resumed only after all of them have settled, and with the list of their
\* results in tuple order.
C6_TupleResumedWithResults ==
    \A i \in 1..Len(received) :
        (Steps[i].tuple /\ Distinct(Steps[i].fs)) =>
            /\ \A k \in 1..Len(Steps[i].fs) : Settled(Steps[i].fs[k])
            /\ received[i] = Sent(List(ResultsInOrder(Steps[i].fs)))

\* C7: the error of a failed future the coroutine awaited (yielded by itself
\* or in a tuple) is thrown into the generator at the yield that awaited it;
\* a generator that catches it goes on, and the outer future settles by what
\* the generator does later, not with the caught error.
Members(i) == {Steps[i].fs[k] : k \in 1..Len(Steps[i].fs)}
FailedAt(i) == Single(i) /\ fut[Awaited(i)].state = "FAILED"
EndedByThrow ==
    /\ received # <<>>
    /\ received[Len(received)].kind = "throw"
    /\ ~Steps[Len(received)].catch
GenOutcome ==
    IF EndedByThrow THEN Failed(received[Len(received)].val.data[1])
    ELSE IF gen.final = "return" THEN Resolved(GenReturnValue(received))
    ELSE Failed(GenError)
C7_AwaitedErrorThrownIntoGenerator ==
    /\ \A i \in 1..pos :
          ((\A f \in Members(i) : Settled(f)) /\ (\E f \in Members(i) : fut[f].state = "FAILED"))
              => /\ Len(received) >= i
                 /\ \E f \in Members(i) : received[i] = Thrown(ErrorOf(f))
    /\ (\E i \in 1..pos : FailedAt(i) /\ Steps[i].catch) =>
          /\ gdone => outer = GenOutcome
          /\ (~gdone /\ Single(pos)) => (outer = PendingFuture /\ ~Settled(Awaited(pos)))

\* What does hold of C7 (a lemma, no claim's formula): the same for the
\* futures the generator yields by themselves.
CaughtErrorOfSingleFutureDoesNotSettleOuter ==
    /\ \A i \in 1..pos : FailedAt(i) =>
          (Len(received) >= i /\ received[i] = Thrown(ErrorOf(Awaited(i))))
    /\ \A i \in 1..Len(received) : received[i].kind = "throw" => (i <= pos /\ FailedAt(i))
    /\ (\E i \in 1..pos : FailedAt(i) /\ Steps[i].catch) =>
          /\ gdone => outer = GenOutcome
          /\ (~gdone /\ Single(pos)) => (outer = PendingFuture /\ ~Settled(Awaited(pos)))

\* ------------------------------------------------------ claims: EventLoop
\* C8, as stated: after on_read(d, cb) then off_read(d, cb) on a registered d,
\* handles_read(d, cb) is false, and if d has no read callbacks left the
\* events registered with the io_loop for d do not contain READ.
C8_OffReadLeavesUnhandled ==
    onOff # <<>> =>
        /\ ~handles_read(Loop, onOff[1], onOff[2])
        /\ handlers[onOff[1]].read = <<>> => io[onOff[1]] \cap READ = {}

\* C8, amended: off_read removes one registration of cb, so after on_read(d, cb)
\* then off_read(d, cb) the callback is registered as often as before the
\* on_read: handles_read(d, cb) is false unless cb was registered for read on
\* d before; with no read callbacks left the io_loop's events for d do not
\* contain READ.
C8_OffReadRemovesOneRegistration ==
    onOff # <<>> =>
        /\ Count(handlers[onOff[1]].read, onOff[2]) = onOff[3]
        /\ handles_read(Loop, onOff[1], onOff[2]) <=> onOff[3] > 0
        /\ handlers[onOff[1]].read = <<>> => io[onOff[1]] \cap READ = {}

\* C8's case: d held a write callback, cb was added for read and removed
\* again: cb is not handled and only WRITE is registered with the io_loop.
C8_Witness ==
    /\ onOff # <<>> /\ onOff[3] = 0
    /\ handlers[onOff[1]].read = <<>>
    /\ handlers[onOff[1]].write # <<>>
    /\ ~handles_read(Loop, onOff[1], onOff[2])
    /\ io[onOff[1]] = WRITE

\* C9: a notification delivered for a descriptor that is not in the
\* registration table invokes no callback and raises no error.
C9_UnknownDescriptorIgnored ==
    (dispatched.fd # 0 /\ ~dispatched.known) => (invoked = <<>> /\ lastErr = "none")

\* C9's case: the descriptor had a read callback, the io_loop polled a READ for
\* it, and it was unregistered before the notification was delivered.
C9_Witness ==
    /\ dispatched.fd # 0 /\ ~dispatched.known
    /\ READ \subseteq dispatched.events
    /\ dispatched.fd \notin DOMAIN handlers
    /\ READ \subseteq io[dispatched.fd]

\* C10: a notification for a registered descriptor d, no callback registered
\* twice for a kind, invokes for each event kind whose bit is set every
\* callback registered for that kind on d once, with d, in registration
\* order, and no callback of the other kinds.
InvokedFor(k) ==
    LET sel == SelectSeq(invoked, LAMBDA x : x.kind = k)
    IN [i \in 1..Len(sel) |-> sel[i].cb]
C10_EveryCallbackInvokedInOrder ==
    (/\ dispatched.fd # 0 /\ dispatched.known
     /\ \A k \in Kinds : \A c \in Callbacks : Count(dispatched.before[k], c) <= 1) =>
        /\ \A i \in 1..Len(invoked) : invoked[i].arg = dispatched.fd
        /\ \A k \in Kinds :
              InvokedFor(k) = IF k \in Notified(dispatched.events)
                              THEN dispatched.before[k] ELSE <<>>

\* C16: on_*, off_*, handles_* and unregister of a descriptor that is not
\* registered raise an error, and off_* of a callback that is not in the list
\* raises an error; the table and the io_loop's events are as before.
Untouched(L) == L.handlers = handlers /\ L.io = io
C16_UnknownDescriptorOrCallbackRaises ==
    \A fd \in Fds, cb \in Callbacks, kind \in Kinds :
        /\ fd \notin DOMAIN handlers =>
              \A L \in {on(Loop, kind, fd, cb), off(Loop, kind, fd, cb),
                        handles_call(Loop, kind, fd, cb), unregister(Loop, fd)} :
                  L.err = "KeyError" /\ Untouched(L)
        /\ (fd \in DOMAIN handlers /\ ~handles(Loop, kind, fd, cb)) =>
              LET L == off(Loop, kind, fd, cb)
              IN L.err = "ValueError" /\ Untouched(L)

\* C16's case: an off_* has just raised for a callback that is not in the list
\* of a descriptor that holds other callbacks and has events with the io_loop.
C16_Witness ==
    /\ lastErr = "ValueError" /\ dispatched = NoDispatch
    /\ \E fd \in DOMAIN handlers : Entries(handlers[fd]) > 0 /\ io[fd] # {}

\* the events the io_loop holds for fd (none for a descriptor it has no handler for)
InterestOf(fd) == IF fd \in DOMAIN io THEN io[fd] ELSE {}

\* C17: after any sequence of register, unregister, on_* and off_* calls the
\* events the io_loop holds for a descriptor are the union of the bits of the
\* kinds whose callback list is not empty, and none for a descriptor that is
\* not in the table.
C17_InterestIsUnionOfNonEmptyLists ==
    \A fd \in Fds :
        InterestOf(fd) = IF fd \in DOMAIN handlers THEN EventsOf(handlers[fd]) ELSE {}

\* C20: a dispatch whose callbacks change the table raises no error and
\* invokes once every callback that was registered (once) for a notified kind
\* at the start and is still registered at the end.
C20_DispatchSurvivesTableChanges ==
    (dispatched.fd # 0 /\ dispatched.known) =>
        /\ lastErr = "none"
        /\ \A k \in Notified(dispatched.events), c \in Callbacks :
              (/\ Count(dispatched.before[k], c) = 1
               /\ dispatched.fd \in DOMAIN handlers
               /\ Count(handlers[dispatched.fd][k], c) = 1)
                  => Count(InvokedFor(k), c) = 1

\* C19: once the coroutine is called and every future is settled (so every
\* future the generator yields, by itself or in a tuple, empty tuples and
\* tuples with a failing future included), the outer future is settled, and
\* it is never settled twice.  In such a state no callback is left to run:
\* an outer future that is PENDING there stays PENDING for ever.
C19_OuterFutureSettlesOnce ==
    /\ outer.sets <= 1
    /\ (started /\ \A f \in Leaves : Settled(f)) => outer.state # "PENDING"

\* ------------------------------------------------ claims: run, run_with, stop
\* C13: run_with(func) and run_until(future) return to their caller what func
\* returned, or what the awaited future resolved with.
C13_RunWithReturnsResult ==
    \A t \in Threads :
        (ret[t].op \in {"run_with", "run_until"} /\ ret[t].ended = "returned")
            => ret[t].returned = ret[t].produced

\* the thread has set running and run_thread and has cleared neither yet
Holding(t) ==
    pc[t] \in {"run_start", "in_start", "run_clear_thread",
               "with_sync", "in_sync", "with_clear_thread"}

\* C14: over any interleaving of run, run_with and stop from any threads, a
\* thread that is inside run or run_with (between its two settings and its
\* two clearings of the fields) is the only such thread, and the loop is
\* running with run_thread that thread; with no thread in run or run_with
\* the loop is not running and run_thread is None.
C14_RunningExactlyWhileInRun ==
    /\ \A t \in Threads : Holding(t) => (running /\ run_thread = t)
    /\ Cardinality({t \in Threads : Holding(t)}) <= 1
    /\ (\A t \in Threads : pc[t] = "idle") => (~running /\ run_thread = NoneVal)

\* ------------------------------------------------------- claims: timers
TaskIds == 1..Len(tasks)
Pending(task) == \E h \in DOMAIN timeouts : timeouts[h].task = task
Queued(task) == \E i \in 1..Len(callbacks) : callbacks[i].task = task
Periodic(task) == tasks[task].kind = "periodically"

\* C11, as stated: the callback of a periodic task is invoked again only
\* after an invocation that returned a truthy value without raising; after
\* one that returned a falsy value (False, None, 0) or raised it is not
\* invoked again.
C11_FiredAgainOnlyAfterTruthy ==
    \A k \in TaskIds :
        /\ executing.task = k => tasks[k].last \in {"none", "True"}
        /\ (Periodic(k) /\ executing.task # k /\ tasks[k].last \notin {"none", "True"})
              => ~Pending(k)

\* C11, amended: the callback of a periodic task is invoked again only after
\* an invocation that returned, without raising, a value that is not equal to
\* False; after one that returned False (or 0, which equals False) or raised
\* no timeout of the task is left, so it is not invoked again: a task that
\* returns False on its third invocation is invoked three times.  A callback
\* that returns None keeps being invoked.
C11_FiredAgainUnlessEqualFalse ==
    \A k \in TaskIds :
        /\ executing.task = k => ~EqualsFalse(tasks[k].last)
        /\ (Periodic(k) /\ executing.task # k /\ EqualsFalse(tasks[k].last))
              => (~Pending(k) /\ ~Queued(k))
        /\ (Periodic(k) /\ executing.task # k /\ tasks[k].unscheduled = "no"
              /\ tasks[k].last \in {"True", "None"}) => Pending(k)

\* C11's case: the third invocation of a periodic task has returned False
\* and no timeout is left.
C11_Witness ==
    \E k \in TaskIds :
        /\ Periodic(k) /\ tasks[k].count = 3 /\ tasks[k].last = "False"
        /\ executing = NoExecuting /\ timeouts = << >>

\* C12, as stated: unschedule(h) with the handle of a task keeps a one-shot
\* callback that has not fired from ever being invoked, and cancels the next
\* firing of a periodic task whenever it is called, before the first firing
\* or between later ones.
C12_UnscheduleCancelsNextFiring ==
    \A k \in TaskIds :
        /\ tasks[k].unscheduled = "before" => (tasks[k].count = 0 /\ ~Pending(k))
        /\ (tasks[k].unscheduled = "after" /\ executing.task # k) => ~Pending(k)

\* C12, amended: unschedule(h) with the handle schedule_in or
\* schedule_periodically returned on the loop thread cancels the first
\* firing: called before the task has fired, the callback is never invoked.
\* Once a periodic task has fired, h is the handle of a timeout that is gone
\* and unschedule(h) changes nothing: the task keeps firing.
C12_UnscheduleCancelsFirstFiring ==
    \A k \in TaskIds :
        /\ tasks[k].unscheduled = "before" => (tasks[k].count = 0 /\ ~Pending(k) /\ ~Queued(k))
        /\ (tasks[k].handle # NoneVal /\ tasks[k].count > 0)
              => unschedule(Timers, tasks[k].handle).timeouts = timeouts
        /\ (tasks[k].handle # NoneVal /\ tasks[k].count = 0 /\ tasks[k].unscheduled = "no")
              => (tasks[k].handle \in DOMAIN timeouts
                  /\ \A h \in DOMAIN unschedule(Timers, tasks[k].handle).timeouts :
                        timeouts[h].task # k)

\* C12's case: a periodic task was unscheduled on the loop thread before its
\* first firing, while the loop is running.
C12_Witness ==
    \E k \in TaskIds :
        /\ Periodic(k) /\ tasks[k].unscheduled = "before" /\ tasks[k].handle # NoneVal
        /\ Driving # {} /\ tasks[k].count = 0

\* C18, as stated: while the callback of a periodic task is executing, no
\* timeout for the task's next firing is pending in the io_loop.
C18_NoNextTimeoutWhileExecuting ==
    executing.task # 0 => ~Pending(executing.task)

\* C18, amended: the timeout for the next firing is created before the
\* callback is invoked: while the callback is executing, that timeout, and no
\* other of the task, is pending; when the callback has returned a value
\* equal to False or has raised, the timeout is gone again.
C18_NextTimeoutPendingWhileExecuting ==
    /\ executing.task # 0 =>
          \A h \in DOMAIN timeouts :
              timeouts[h].task = executing.task <=> h = executing.handle
    /\ executing.task # 0 => executing.handle \in DOMAIN timeouts
    /\ \A k \in TaskIds :
          (tasks[k].count > 0 /\ executing.task # k /\ EqualsFalse(tasks[k].last))
              => ~Pending(k)

\* C18's case: the callback of a periodic task is executing for the second
\* time, the timeout of the third firing pending.
C18_Witness ==
    /\ executing.task # 0
    /\ tasks[executing.task].count = 2
    /\ Pending(executing.task)

\* C15: schedule_in and schedule_periodically return a handle (of a timeout
\* that is then pending) exactly when the calling thread is the one recorded
\* in run_thread; called by another thread, or with no thread recorded, they
\* return None, leave the timeouts as they are and add one callback to the
\* io_loop's queue; the timeout of such a call is added only when the loop
\* runs that callback.
ScheduleCalls(t, k) == {schedule_in(Timers, t, k), schedule_periodically(Timers, t, k)}
C15_HandleOnlyOnLoopThread ==
    /\ \A t \in Threads : (CanCall(t) /\ Len(tasks) < MaxTasks) =>
          \A T \in ScheduleCalls(t, Len(tasks) + 1) :
              /\ T.out # NoneVal <=> t = run_thread
              /\ t = run_thread =>
                    (T.out \in DOMAIN T.timeouts /\ T.out \notin DOMAIN timeouts
                     /\ T.callbacks = callbacks)
              /\ t # run_thread =>
                    (T.timeouts = timeouts /\ Len(T.callbacks) = Len(callbacks) + 1
                     /\ T.callbacks[Len(T.callbacks)].task = Len(tasks) + 1)
    /\ \A k \in TaskIds :
          /\ tasks[k].handle = NoneVal => (Queued(k) => (~Pending(k) /\ tasks[k].count = 0))
          /\ tasks[k].handle # NoneVal => ~Queued(k)

\* C15's case: one thread is inside the loop and recorded as run_thread, a
\* call from another thread has been deferred to the queue and has returned
\* no handle.
C15_Witness ==
    /\ Driving # {} /\ run_thread \in Driving
    /\ \E k \in TaskIds : tasks[k].handle = NoneVal /\ Queued(k) /\ ~Pending(k)

====
